---- MODULE Spec2Model ----
(***************************************************************************)
(* CGR room scraper (src/src/index.js, second listing, lines 309-565):     *)
(* the crawl main() drives against the booking site, the cookie jar, the   *)
(* decoders, the extractors and the CSV export.                            *)
(*                                                                         *)
(* Strings are sequences of one-character strings, 1-based; the JavaScript *)
(* string primitives the program calls are written out below over them.    *)
(***************************************************************************)
EXTENDS Integers, Sequences, FiniteSets, TLC

(***************************************************************************)
(* Bounds of the stubbed site.                                             *)
(***************************************************************************)
MaxOptions == 3
MaxDays == 2
MaxSeances == 2
MaxRows == 3
MaxSegments == 4
MaxFieldLen == 2

(***************************************************************************)
(* JavaScript string primitives.                                           *)
(***************************************************************************)
DigitChars == <<"0", "1", "2", "3", "4", "5", "6", "7", "8", "9">>

UpperChars == <<"A", "B", "C", "D", "E", "F", "G", "H", "I", "J", "K", "L", "M",
                "N", "O", "P", "Q", "R", "S", "T", "U", "V", "W", "X", "Y", "Z">>

LowerChars == <<"a", "b", "c", "d", "e", "f", "g", "h", "i", "j", "k", "l", "m",
                "n", "o", "p", "q", "r", "s", "t", "u", "v", "w", "x", "y", "z">>

Range(f) == {f[i] : i \in DOMAIN f}

IsDigit(c) == c \in Range(DigitChars)

DigitVal(c) == (CHOOSE i \in DOMAIN DigitChars : DigitChars[i] = c) - 1

\* the /i flag of the room regexes: letters compare by their lower-case form
ToLower(c) ==
    IF c \in Range(UpperChars)
    THEN LowerChars[CHOOSE i \in DOMAIN UpperChars : UpperChars[i] = c]
    ELSE c

LowerStr(s) == [i \in DOMAIN s |-> ToLower(s[i])]

StartsWithAt(s, sub, i) == i >= 1 /\ i + Len(sub) - 1 <= Len(s) /\ SubSeq(s, i, i + Len(sub) - 1) = sub

\* String.prototype.indexOf, 1-based: 0 stands for JavaScript's -1
IndexOf(s, sub) ==
    IF \E i \in 1..Len(s) : StartsWithAt(s, sub, i)
    THEN CHOOSE i \in 1..Len(s) : StartsWithAt(s, sub, i) /\ \A j \in 1..(i - 1) : ~StartsWithAt(s, sub, j)
    ELSE 0

\* String.prototype.includes / the [attr*=...] selector test, for a non-empty sub
Includes(s, sub) == IndexOf(s, sub) # 0

\* String.prototype.split with a non-empty separator
RECURSIVE Split(_, _)
Split(s, sep) ==
    LET i == IndexOf(s, sep)
    IN IF i = 0
       THEN <<s>>
       ELSE <<SubSeq(s, 1, i - 1)>> \o Split(SubSeq(s, i + Len(sep), Len(s)), sep)

\* String.prototype.trim over the white space of the alphabet (space, newline)
IsSpace(c) == c \in {" ", "\n"}

RECURSIVE TrimLeft(_)
TrimLeft(s) == IF s # <<>> /\ IsSpace(Head(s)) THEN TrimLeft(Tail(s)) ELSE s

RECURSIVE TrimRight(_)
TrimRight(s) == IF s # <<>> /\ IsSpace(s[Len(s)]) THEN TrimRight(SubSeq(s, 1, Len(s) - 1)) ELSE s

Trim(s) == TrimRight(TrimLeft(s))

\* Array.prototype.join
RECURSIVE Join(_, _)
Join(parts, sep) ==
    IF parts = <<>> THEN <<>>
    ELSE IF Len(parts) = 1 THEN parts[1]
    ELSE parts[1] \o sep \o Join(Tail(parts), sep)

AllDigits(s) == \A i \in DOMAIN s : IsDigit(s[i])

RECURSIVE DecimalValue(_)
DecimalValue(s) == IF s = <<>> THEN 0 ELSE 10 * DecimalValue(SubSeq(s, 1, Len(s) - 1)) + DigitVal(s[Len(s)])

RECURSIVE NatToString(_)
NatToString(n) == IF n < 10 THEN <<DigitChars[n + 1]>> ELSE NatToString(n \div 10) \o <<DigitChars[(n % 10) + 1]>>

\* a JavaScript number: a natural, or NaN
NaN == [nan |-> TRUE, val |-> 0]

Num(n) == [nan |-> FALSE, val |-> n]

\* Number(string), for the strings of this model: white space is trimmed, the
\* empty string is 0, a run of decimal digits is its value, anything else NaN
\* (signs, fractions, exponents and radix prefixes do not occur in the pools)
Number(s) ==
    LET t == Trim(s)
    IN IF t = <<>> THEN Num(0)
       ELSE IF AllDigits(t) THEN Num(DecimalValue(t))
       ELSE NaN

\* String(number)
NumberToString(x) == IF x.nan THEN <<"N", "a", "N">> ELSE NatToString(x.val)

\* JavaScript values: null, undefined, strings, numbers, booleans, arrays of
\* values and plain objects
Null == [kind |-> "null"]

Undef == [kind |-> "undefined"]

Str(s) == [kind |-> "string", str |-> s]

Arr(a) == [kind |-> "array", arr |-> a]

NumberValue(x) == [kind |-> "number", num |-> x]

\* String(value)
RECURSIVE String(_)
String(v) ==
    IF v.kind = "string" THEN v.str
    ELSE IF v.kind = "null" THEN <<"n", "u", "l", "l">>
    ELSE IF v.kind = "undefined" THEN <<"u", "n", "d", "e", "f", "i", "n", "e", "d">>
    ELSE IF v.kind = "number" THEN NumberToString(v.num)
    ELSE IF v.kind = "boolean"
         THEN (IF v.bool THEN <<"t", "r", "u", "e">> ELSE <<"f", "a", "l", "s", "e">>)
    ELSE IF v.kind = "array"
         THEN Join([i \in DOMAIN v.arr |->
                       IF v.arr[i].kind \in {"null", "undefined"} THEN <<>> ELSE String(v.arr[i])],
                   <<",">>)
    ELSE <<"[", "o", "b", "j", "e", "c", "t", " ", "O", "b", "j", "e", "c", "t", "]">>

(***************************************************************************)
(* JavaScript objects with string keys, as the sequence of their           *)
(* properties in own-property order: array-index keys first, ascending,    *)
(* then the other keys in creation order.                                  *)
(***************************************************************************)
\* the decimal digits of 2^32 - 2, the largest array index
MaxArrayIndexDigits == <<"4", "2", "9", "4", "9", "6", "7", "2", "9", "4">>

\* a < b for two digit strings of the same length
RECURSIVE DigitsLess(_, _)
DigitsLess(a, b) ==
    IF a = <<>> THEN FALSE
    ELSE IF DigitVal(Head(a)) # DigitVal(Head(b)) THEN DigitVal(Head(a)) < DigitVal(Head(b))
    ELSE DigitsLess(Tail(a), Tail(b))

\* a < b for two canonical numeric strings
NumericLess(a, b) == Len(a) < Len(b) \/ (Len(a) = Len(b) /\ DigitsLess(a, b))

\* a canonical numeric string that is at most 2^32 - 2
IsArrayIndex(k) ==
    /\ k # <<>>
    /\ AllDigits(k)
    /\ (Len(k) > 1 => k[1] # "0")
    /\ ~NumericLess(MaxArrayIndexDigits, k)

HasKey(o, k) == \E i \in DOMAIN o : o[i].k = k

KeyPos(o, k) == CHOOSE i \in DOMAIN o : o[i].k = k

ObjGet(o, k) == o[KeyPos(o, k)].v

\* how many properties of o precede a new key k
InsertAfter(o, k) ==
    IF IsArrayIndex(k)
    THEN Cardinality({i \in DOMAIN o : IsArrayIndex(o[i].k) /\ NumericLess(o[i].k, k)})
    ELSE Len(o)

\* o[k] = v
ObjSet(o, k, v) ==
    IF HasKey(o, k)
    THEN [o EXCEPT ![KeyPos(o, k)] = [k |-> k, v |-> v]]
    ELSE LET n == InsertAfter(o, k)
         IN SubSeq(o, 1, n) \o <<[k |-> k, v |-> v]>> \o SubSeq(o, n + 1, Len(o))

\* ObjectKeys walking the properties from the last to the first
ObjectKeysReversed(o) == [i \in DOMAIN o |-> o[Len(o) + 1 - i].k]

\* Object.keys(o)
ObjectKeys(o) == [i \in DOMAIN o |-> o[i].k]

\* Object.entries(o)
ObjectEntries(o) == o

\* JSON.parse of an object literal that lists the members `listing` in order
RECURSIVE JsonObject(_)
JsonObject(listing) ==
    IF listing = <<>> THEN <<>>
    ELSE LET m == listing[Len(listing)]
         IN ObjSet(JsonObject(SubSeq(listing, 1, Len(listing) - 1)), m.k, m.v)

(***************************************************************************)
(* Configuration (lines 327-332).                                          *)
(***************************************************************************)
CINEMA_SLUG == <<"l", "e", "f", "r", "a", "n", "c", "a", "i", "s">>

DELAY_MS == 250

(***************************************************************************)
(* CookieJar (lines 342-367).  A jar is the object this.cookies.           *)
(***************************************************************************)
\* res.headers.get("set-cookie") of the fetch Headers class: null without such
\* a header, otherwise the values of all Set-Cookie lines joined by ", "
HeadersGet(lines) == IF lines = <<>> THEN Null ELSE Str(Join(lines, <<",", " ">>))

\* one turn of the for loop of setFrom, for the directive sc
StoreCookie(cookies, sc) ==
    LET first == Split(sc, <<";">>)[1]
        eq == IndexOf(first, <<"=">>)
    IN IF eq = 0 THEN cookies
       ELSE ObjSet(cookies, Trim(SubSeq(first, 1, eq - 1)), Trim(SubSeq(first, eq + 1, Len(first))))

RECURSIVE StoreCookies(_, _)
StoreCookies(cookies, arr) ==
    IF arr = <<>> THEN cookies ELSE StoreCookies(StoreCookie(cookies, Head(arr)), Tail(arr))

\* CookieJar.setFrom: the jar after recording a response whose
\* headers.get("set-cookie") is raw
setFrom(cookies, raw) ==
    IF raw.kind = "null" \/ (raw.kind = "string" /\ raw.str = <<>>) THEN cookies
    ELSE StoreCookies(cookies, IF raw.kind = "array" THEN raw.arr ELSE <<raw.str>>)

CookiePair(e) == e.k \o <<"=">> \o e.v

\* the string CookieJar.apply builds from the jar
JarHeader(cookies) ==
    Join([i \in DOMAIN ObjectEntries(cookies) |-> CookiePair(ObjectEntries(cookies)[i])], <<";", " ">>)

NoHeader == [set |-> FALSE, v |-> <<>>]

\* CookieJar.apply: the Cookie header of the request, set only for a non-empty string
apply(cookies) ==
    IF JarHeader(cookies) # <<>> THEN [set |-> TRUE, v |-> JarHeader(cookies)] ELSE NoHeader

(***************************************************************************)
(* Decoders (lines 447-455).                                               *)
(***************************************************************************)
\* PartOrEmpty without the `|| ""`: a missing part is printed as undefined
PartOrUndefined(parts, i) == IF i <= Len(parts) THEN parts[i] ELSE String(Undef)

\* parts[i] || "" for the 1-based i
PartOrEmpty(parts, i) == IF i <= Len(parts) THEN parts[i] ELSE <<>>

parseSeanceKey(key) ==
    LET parts == Split(String(key), <<"/">>)
    IN [ts |-> Number(parts[1]), version |-> PartOrEmpty(parts, 2), seanceId |-> PartOrEmpty(parts, 3)]

parseSeanceLabel(label) ==
    LET raw == Split(String(label), <<" ", "-", " ">>)
        chunks == [i \in DOMAIN raw |-> Trim(raw[i])]
    IN [time |-> PartOrEmpty(chunks, 1), version |-> PartOrEmpty(chunks, 2), audio |-> PartOrEmpty(chunks, 3)]

(***************************************************************************)
(* Extractors (lines 400-445).  A parsed page is a record of the elements  *)
(* the selectors look at, in document order:                               *)
(*   selects: [id, name, options: sequence of [value, text]]               *)
(*   imgs:    [src, class, alt, title]    (an absent attribute is <<>>)    *)
(*   forms:   [id, action]                                                 *)
(***************************************************************************)
ModresaFilm == <<"m", "o", "d", "r", "e", "s", "a", "_", "f", "i", "l", "m">>

\* $("#modresa_film option, select[name=modresa_film] option")
FilmOptions(page) ==
    LET RECURSIVE Collect(_)
        Collect(sel) ==
            IF sel = <<>> THEN <<>>
            ELSE (IF Head(sel).id = ModresaFilm \/ Head(sel).name = ModresaFilm
                  THEN Head(sel).options ELSE <<>>) \o Collect(Tail(sel))
    IN Collect(page.selects)

parseFilmsFromHTML(page) ==
    LET RECURSIVE Each(_)
        Each(options) ==
            IF options = <<>> THEN <<>>
            ELSE (IF Head(options).value # <<>> /\ Trim(Head(options).value) # <<>>
                  THEN <<[id |-> Trim(Head(options).value), title |-> Trim(Head(options).text)]>>
                  ELSE <<>>) \o Each(Tail(options))
    IN Each(FilmOptions(page))

NoMatch == [ok |-> FALSE, cap |-> <<>>]

Matched(cap) == [ok |-> TRUE, cap |-> cap]

IsDigitAt(s, i) == i >= 1 /\ i <= Len(s) /\ IsDigit(s[i])

\* /sal_(\d{1,2})\.png/i tried at position i
SalPngAt(s, i) ==
    LET l == LowerStr(s)
    IN IF ~StartsWithAt(l, <<"s", "a", "l", "_">>, i) THEN NoMatch
       ELSE IF IsDigitAt(l, i + 4) /\ IsDigitAt(l, i + 5) /\ StartsWithAt(l, <<".", "p", "n", "g">>, i + 6)
            THEN Matched(SubSeq(s, i + 4, i + 5))
       ELSE IF IsDigitAt(l, i + 4) /\ StartsWithAt(l, <<".", "p", "n", "g">>, i + 5)
            THEN Matched(SubSeq(s, i + 4, i + 4))
       ELSE NoMatch

\* (\d{1,2}) tried at position i: two digits when there are two
DigitsAt(s, i) ==
    IF IsDigitAt(s, i) /\ IsDigitAt(s, i + 1) THEN Matched(SubSeq(s, i, i + 1))
    ELSE IF IsDigitAt(s, i) THEN Matched(SubSeq(s, i, i))
    ELSE NoMatch

\* /tag-SAL(\d{1,2})/i tried at position i
TagSalAt(s, i) ==
    IF StartsWithAt(LowerStr(s), <<"t", "a", "g", "-", "s", "a", "l">>, i) THEN DigitsAt(s, i + 7) ELSE NoMatch

\* the first position from i on that holds no white space
RECURSIVE SkipSpace(_, _)
SkipSpace(s, i) == IF i <= Len(s) /\ IsSpace(s[i]) THEN SkipSpace(s, i + 1) ELSE i

\* /salle\s*(\d{1,2})/i tried at position i
SalleAt(s, i) ==
    IF StartsWithAt(LowerStr(s), <<"s", "a", "l", "l", "e">>, i) THEN DigitsAt(s, SkipSpace(s, i + 5)) ELSE NoMatch

\* the pattern named pat tried at position i
PatternAt(pat, s, i) ==
    IF pat = "sal_png" THEN SalPngAt(s, i)
    ELSE IF pat = "tag_sal" THEN TagSalAt(s, i)
    ELSE SalleAt(s, i)

\* String.prototype.match: the leftmost position where the pattern matches
RegexMatch(s, pat) ==
    IF \E i \in 1..Len(s) : PatternAt(pat, s, i).ok
    THEN PatternAt(pat, s, CHOOSE i \in 1..Len(s) :
             PatternAt(pat, s, i).ok /\ \A j \in 1..(i - 1) : ~PatternAt(pat, s, j).ok)
    ELSE NoMatch

ImgTagsSal == <<"/", "i", "m", "g", "/", "t", "a", "g", "s", "/", "s", "a", "l", "_">>

TagSAL == <<"t", "a", "g", "-", "S", "A", "L">>

TagIce == <<"t", "a", "g", " ", "t", "a", "g", "-", "I", "C", "E", "B", "Y", "C", "G", "R">>

\* img[src*="/img/tags/sal_"], img[class*="tag-SAL"], img[class="tag tag-ICEBYCGR"]
RoomImg(img) == Includes(img.src, ImgTagsSal) \/ Includes(img.class, TagSAL) \/ img.class = TagIce

\* String.prototype.padStart(2, "0")
PadStart2(s) == IF Len(s) < 2 THEN <<"0">> \o s ELSE s

NoSalle == [salleNum |-> <<>>, salleLabel |-> <<>>]

\* the numeric marker of the image: src, then class, then alt, then title
NumericMarker(img) ==
    LET m1 == RegexMatch(img.src, "sal_png")
        m2 == IF m1.ok THEN m1 ELSE RegexMatch(img.class, "tag_sal")
        m3 == IF m2.ok THEN m2 ELSE RegexMatch(img.alt, "salle")
    IN IF m3.ok THEN m3 ELSE RegexMatch(img.title, "salle")

\* extractSalle with the ICE test ahead of the numeric patterns
extractSalleIceFirst(page) ==
    IF ~\E i \in DOMAIN page.imgs : RoomImg(page.imgs[i]) THEN NoSalle
    ELSE LET img == page.imgs[CHOOSE i \in DOMAIN page.imgs :
                        RoomImg(page.imgs[i]) /\ \A j \in 1..(i - 1) : ~RoomImg(page.imgs[j])]
             m == NumericMarker(img)
             num == PadStart2(m.cap)
         IN IF img.class = TagIce
            THEN [salleNum |-> <<"I", "C", "E">>, salleLabel |-> <<"S", "a", "l", "l", "e", " ", "I", "C", "E">>]
            ELSE IF m.ok
            THEN [salleNum |-> num,
                  salleLabel |-> <<"S", "a", "l", "l", "e", " ">> \o NatToString(DecimalValue(num))]
            ELSE NoSalle

extractSalle(page) ==
    IF ~\E i \in DOMAIN page.imgs : RoomImg(page.imgs[i]) THEN NoSalle
    ELSE LET img == page.imgs[CHOOSE i \in DOMAIN page.imgs :
                        RoomImg(page.imgs[i]) /\ \A j \in 1..(i - 1) : ~RoomImg(page.imgs[j])]
             m == NumericMarker(img)
             num == PadStart2(m.cap)
         IN IF m.ok
            THEN [salleNum |-> num,
                  salleLabel |-> <<"S", "a", "l", "l", "e", " ">> \o NatToString(DecimalValue(num))]
            ELSE IF img.class = TagIce
            THEN [salleNum |-> <<"I", "C", "E">>, salleLabel |-> <<"S", "a", "l", "l", "e", " ", "I", "C", "E">>]
            ELSE NoSalle

FfSelPlace == <<"f", "f", "s", "e", "l", "p", "l", "a", "c", "e">>

\* $("#ffselplace").first().attr("action") || ""
extractReservationUrl(page) ==
    IF \E i \in DOMAIN page.forms : page.forms[i].id = FfSelPlace
    THEN page.forms[CHOOSE i \in DOMAIN page.forms :
             page.forms[i].id = FfSelPlace /\ \A j \in 1..(i - 1) : page.forms[j].id # FfSelPlace].action
    ELSE <<>>

(***************************************************************************)
(* Report (lines 385-397 and 552-556).                                     *)
(***************************************************************************)
\* the collation order of the characters of the model's alphabet: white
\* space, punctuation, symbols, digits, letters
CollationChars ==
    <<" ", "\n", "_", "-", ",", ";", ":", ".", "\"", "/", "=">> \o DigitChars \o LowerChars

PrimaryRank(c) == CHOOSE i \in DOMAIN CollationChars : CollationChars[i] = ToLower(c)

RECURSIVE PrimaryCompare(_, _)
PrimaryCompare(a, b) ==
    IF a = <<>> /\ b = <<>> THEN 0
    ELSE IF a = <<>> THEN -1
    ELSE IF b = <<>> THEN 1
    ELSE IF PrimaryRank(Head(a)) < PrimaryRank(Head(b)) THEN -1
    ELSE IF PrimaryRank(Head(a)) > PrimaryRank(Head(b)) THEN 1
    ELSE PrimaryCompare(Tail(a), Tail(b))

\* two strings that differ in case only: lower case sorts first
RECURSIVE CaseCompare(_, _)
CaseCompare(a, b) ==
    IF a = <<>> THEN 0
    ELSE IF Head(a) = Head(b) THEN CaseCompare(Tail(a), Tail(b))
    ELSE IF Head(a) = ToLower(Head(a)) THEN -1
    ELSE 1

\* String.prototype.localeCompare
localeCompare(a, b) == IF PrimaryCompare(a, b) # 0 THEN PrimaryCompare(a, b) ELSE CaseCompare(a, b)

\* CompareRows with the time compared before the date
CompareRowsTimeFirst(a, b) ==
    IF localeCompare(a.salle, b.salle) # 0 THEN localeCompare(a.salle, b.salle)
    ELSE IF localeCompare(a.heure, b.heure) # 0 THEN localeCompare(a.heure, b.heure)
    ELSE localeCompare(a.date, b.date)

\* the comparator of results.sort
CompareRows(a, b) ==
    IF localeCompare(a.salle, b.salle) # 0 THEN localeCompare(a.salle, b.salle)
    ELSE IF localeCompare(a.date, b.date) # 0 THEN localeCompare(a.date, b.date)
    ELSE localeCompare(a.heure, b.heure)

\* r placed behind the rows of the sorted sequence that do not follow it
InsertRow(sorted, r) ==
    LET n == Cardinality({i \in DOMAIN sorted : CompareRows(sorted[i], r) <= 0})
    IN SubSeq(sorted, 1, n) \o <<r>> \o SubSeq(sorted, n + 1, Len(sorted))

\* Array.prototype.sort with CompareRows (a stable sort)
RECURSIVE SortRows(_)
SortRows(rows) ==
    IF rows = <<>> THEN <<>> ELSE InsertRow(SortRows(SubSeq(rows, 1, Len(rows) - 1)), rows[Len(rows)])

\* DoubleQuotes without the replace: quotes are written as they are
QuotesKept(s) == s

\* String(v).replace(/"/g, '""')
RECURSIVE DoubleQuotes(_)
DoubleQuotes(s) ==
    IF s = <<>> THEN <<>>
    ELSE (IF Head(s) = "\"" THEN <<"\"", "\"">> ELSE <<Head(s)>>) \o DoubleQuotes(Tail(s))

CsvField(v) == <<"\"">> \o DoubleQuotes(v) \o <<"\"">>

toCsvRow(values) == Join([i \in DOMAIN values |-> CsvField(values[i])], <<",">>)

\* Object.keys(rows[0]): the property names of a row, in the order of the literal
RowHeaders ==
    << <<"c", "i", "n", "e", "m", "a">>,
       <<"s", "a", "l", "l", "e">>,
       <<"s", "a", "l", "l", "e", "_", "l", "a", "b", "e", "l">>,
       <<"f", "i", "l", "m", "_", "i", "d">>,
       <<"f", "i", "l", "m", "_", "t", "i", "t", "r", "e">>,
       <<"d", "a", "t", "e">>,
       <<"h", "e", "u", "r", "e">>,
       <<"v", "e", "r", "s", "i", "o", "n">>,
       <<"a", "u", "d", "i", "o">>,
       <<"s", "e", "a", "n", "c", "e", "_", "i", "d">>,
       <<"t", "s">>,
       <<"r", "e", "s", "e", "r", "v", "a", "t", "i", "o", "n", "_", "u", "r", "l">> >>

\* headers.map(h => row[h]), each value as String() prints it
RowValues(row) ==
    <<row.cinema, row.salle, row.salle_label, row.film_id, row.film_titre, row.date, row.heure,
      row.version, row.audio, row.seance_id, NumberToString(row.ts), row.reservation_url>>

\* saveCSV: the files written so far, after the call
saveCSV(written, rows) ==
    IF rows = <<>> THEN written
    ELSE written \o <<Join(<<toCsvRow(RowHeaders)>> \o [i \in DOMAIN rows |-> toCsvRow(RowValues(rows[i]))],
                          <<"\n">>)>>

(***************************************************************************)
(* The stubbed booking site: what the server may answer.                   *)
(***************************************************************************)
Min(a, b) == IF a < b THEN a ELSE b

\* the rotations of a non-empty sequence
Rotations(p) == {[i \in 1..Len(p) |-> p[((i + r - 1) % Len(p)) + 1]] : r \in 0..(Len(p) - 1)}

\* the listings the server may give out of the first n elements of all: none,
\* one of them alone, or the first m of them in any rotation
Listings(all, n) ==
    {<<>>} \cup {<<all[i]>> : i \in 1..Min(n, Len(all))}
           \cup UNION {Rotations(SubSeq(all, 1, m)) : m \in 1..Min(n, Len(all))}

\* the <option> elements of the film control: a placeholder without value, then films
AllOptions ==
    << [value |-> <<>>, text |-> <<"-", "-", " ", "f", "i", "l", "m", " ", "-", "-">>],
       [value |-> <<"6", "7">>, text |-> <<" ", "E", "l", "i", "o", " ">>],
       [value |-> <<"5", " ">>, text |-> <<"B", "l", "u", "e", "y">>],
       [value |-> <<"1", "2">>, text |-> <<"D", "u", "n", "e">>] >>

OtherControl == <<"x">>

FilmPage(control, options) ==
    [selects |-> <<[id |-> IF control = "id" THEN ModresaFilm ELSE OtherControl,
                    name |-> IF control = "name" THEN ModresaFilm ELSE OtherControl,
                    options |-> options]>>,
     imgs |-> <<>>,
     forms |-> <<>>]

SeedPages ==
    {FilmPage(control, SubSeq(AllOptions, 1, n)) :
        control \in {"id", "name", "none"}, n \in 0..Min(MaxOptions, Len(AllOptions))}

\* the page of the session stub: a placeholder and two films
SessionSeedPage == FilmPage("id", SubSeq(AllOptions, 1, 3))

AllDays == << <<"8", "-", "2", "5">>, <<"8", "-", "2", "4">>, <<"8", "2", "6">> >>

AllKeys == << <<"1", "7", "/", "V", "F", "/", "5">>, <<"9">>, <<"1", "2", "/", "V", "O">> >>

\* the label the server lists for a showtime key: a JSON string, or null
LabelOf(key) ==
    IF key = AllKeys[1] THEN Str(<<"1", "4", "h", " ", "-", " ", "V", "F", " ", "-", " ", "7">>)
    ELSE IF key = AllKeys[2] THEN Str(<<"9", "h">>)
    ELSE Null

One == <<"1">>

DayMembers(l) == [i \in DOMAIN l |-> [k |-> l[i], v |-> One]]

SeanceMembers(l) == [i \in DOMAIN l |-> [k |-> l[i], v |-> LabelOf(l[i])]]

Img(src, class, alt, title) == [src |-> src, class |-> class, alt |-> alt, title |-> title]

BookingForm == [id |-> FfSelPlace, action |-> <<"/", "r", "/", "1">>]

\* a form of the booking page that is not the seat-selection form
OtherForm == [id |-> OtherControl, action |-> <<"/", "h", "o", "m", "e">>]

\* the booking page the server answers for a showtime of a day: the room in
\* the src of the tag image, in its class, as the ICE tag, a tag image that
\* names no room, or no tag image; with or without the seat-selection form
RevealPage(day, key) ==
    IF key = AllKeys[1] /\ day = AllDays[1]
    THEN [selects |-> <<>>,
          imgs |-> <<Img(<<"/", "i", "m", "g", "/", "t", "a", "g", "s", "/", "s", "a", "l", "_", "6", ".", "p", "n", "g">>,
                         <<>>, <<>>, <<>>)>>,
          forms |-> <<BookingForm>>]
    ELSE IF key = AllKeys[1]
    THEN [selects |-> <<>>,
          imgs |-> <<Img(<<>>, <<"t", "a", "g", " ", "t", "a", "g", "-", "S", "A", "L", "1", "0">>, <<>>, <<>>)>>,
          forms |-> <<BookingForm>>]
    ELSE IF key = AllKeys[2] /\ day = AllDays[1]
    THEN [selects |-> <<>>, imgs |-> <<Img(<<>>, TagIce, <<>>, <<>>)>>, forms |-> <<>>]
    ELSE IF key = AllKeys[2]
    THEN [selects |-> <<>>,
          imgs |-> <<Img(<<"/", "l", "o", "g", "o">>, <<>>, <<>>, <<>>),
                     Img(<<>>, <<"x", " ", "t", "a", "g", "-", "S", "A", "L">>, <<>>, <<>>)>>,
          forms |-> <<OtherForm, [id |-> FfSelPlace, action |-> <<>>]>>]
    ELSE [selects |-> <<>>, imgs |-> <<>>, forms |-> <<OtherForm, BookingForm>>]

\* the Set-Cookie lines a response may carry
SessionCookie == << <<"s", "=", "1", ";", " ", "P", "a", "t", "h", "=", "/">> >>

CookieChoices ==
    { <<>>,
      SessionCookie,
      << <<"s", "=", "2", ";", " ", "p">>, <<" ", "t", " ", "=", " ", "3", " ">> >>,
      << <<"u", "=", "0">>, <<"s", "=", "9">> >>,
      << <<"j", "u", "n", "k">> >> }

(***************************************************************************)
(* The run of main() (lines 458-565).                                      *)
(*                                                                         *)
(*   stub        which stubbed site answers: "listings" varies the bodies, *)
(*               "cookies" varies the Set-Cookie lines                     *)
(*   pc          where main() is suspended                                 *)
(*   cookies     jar.cookies                                               *)
(*   inflight    the requests handed to fetch and not yet settled          *)
(*   films, f    the array `films` and the position of the for loop in it  *)
(*   days, dayIdx, seancesObj, keyIdx   the same for the two inner loops   *)
(*   results     the array `results`                                       *)
(*   written     the contents fs.writeFileSync was called with             *)
(*   exit        "running", or how the process ended                       *)
(*   stderr      what console.error was called with                        *)
(*   arg, ret    the argument and the result of a function applied on its  *)
(*               own (the function-level specifications further down)      *)
(*   log         history: the pacing suspensions, the requests issued and  *)
(*               what came back, in order; a response is logged with its   *)
(*               Set-Cookie lines and the keys it lists (the ids of the    *)
(*               films of the Seed page, the members of a JSON object)     *)
(***************************************************************************)
VARIABLES stub, pc, cookies, inflight, films, f, days, dayIdx, seancesObj, keyIdx,
          results, written, exit, stderr, log, arg, ret

vars == <<stub, pc, cookies, inflight, films, f, days, dayIdx, seancesObj, keyIdx,
          results, written, exit, stderr, log, arg, ret>>

\* no function is applied on its own
NoCall == [fn |-> "none"]

NoResult == [done |-> FALSE]

Init ==
    /\ stub \in {"listings", "cookies"}
    /\ pc = "start"
    /\ cookies = <<>>
    /\ inflight = <<>>
    /\ films = <<>>
    /\ f = 0
    /\ days = <<>>
    /\ dayIdx = 0
    /\ seancesObj = <<>>
    /\ keyIdx = 0
    /\ results = <<>>
    /\ written = <<>>
    /\ exit = "running"
    /\ stderr = <<>>
    /\ log = <<>>
    /\ arg = NoCall
    /\ ret = NoResult

\* what the site may answer to each kind of request
SeedResponses ==
    IF stub = "listings"
    THEN {[setCookie |-> SessionCookie, page |-> p] : p \in SeedPages}
    ELSE {[setCookie |-> c, page |-> SessionSeedPage] : c \in CookieChoices}

DaysResponses ==
    IF stub = "listings"
    THEN {[setCookie |-> <<>>, listing |-> DayMembers(l)] : l \in Listings(AllDays, MaxDays)}
    ELSE {[setCookie |-> c, listing |-> DayMembers(<<AllDays[1]>>)] : c \in CookieChoices}

SeancesResponses ==
    IF stub = "listings"
    THEN {[setCookie |-> <<>>, listing |-> SeanceMembers(l)] : l \in Listings(AllKeys, MaxSeances)}
    ELSE {[setCookie |-> c, listing |-> SeanceMembers(<<AllKeys[1], AllKeys[2]>>)] : c \in CookieChoices}

BookResponses(req) ==
    IF stub = "listings"
    THEN {[setCookie |-> <<>>, page |-> RevealPage(req.day, req.key)]}
    ELSE {[setCookie |-> c, page |-> RevealPage(req.day, req.key)] : c \in CookieChoices}

Event(type, req, setCookie, keys, ms) ==
    [type |-> type, kind |-> req.kind, film |-> req.film, day |-> req.day, key |-> req.key,
     cookie |-> req.cookie, setCookie |-> setCookie, keys |-> keys, ms |-> ms]

NoRequest == [kind |-> "", film |-> <<>>, day |-> <<>>, key |-> <<>>, cookie |-> NoHeader]

\* await sleep(DELAY_MS) has elapsed
SleepEv == Event("sleep", NoRequest, <<>>, <<>>, DELAY_MS)

ReqEv(req) == Event("req", req, <<>>, <<>>, 0)

RespEv(req, setCookie, keys) == Event("resp", req, setCookie, keys, 0)

ErrEv(req) == Event("error", req, <<>>, <<>>, 0)

\* Pacing with the sleep of line 513 left out
PacingSkipsReveal(kind) == IF kind \in {"seed", "book"} THEN <<>> ELSE <<SleepEv>>

\* the suspensions main() goes through right before a request of the kind
Pacing(kind) == IF kind = "seed" THEN <<>> ELSE <<SleepEv>>

\* PcAfterIssue with the await of line 519 left out: the loop goes on at once
PcAfterIssueNoAwait(kind) ==
    IF kind = "seed" THEN "seed_fetch"
    ELSE IF kind = "days" THEN "days_fetch"
    ELSE IF kind = "seances" THEN "seances_fetch"
    ELSE "book_sleep"

\* `await fetchWithJar(...)`: main() stays at the call until it settles
PcAfterIssue(kind) ==
    IF kind = "seed" THEN "seed_fetch"
    ELSE IF kind = "days" THEN "days_fetch"
    ELSE IF kind = "seances" THEN "seances_fetch"
    ELSE "book_fetch"

\* fetchWithJar up to the call of fetch: `if (jar) jar.apply(h)`
RequestCookie(jar) == apply(jar)

\* Recorded with the call of jar.setFrom left out
RecordedNever(jar, resp) == jar

\* fetchWithJar after fetch resolved: `if (jar) jar.setFrom(res)`
Recorded(jar, resp) == setFrom(jar, HeadersGet(resp.setCookie))

Issue(kind, film, day, key) ==
    LET req == [kind |-> kind, film |-> film, day |-> day, key |-> key, cookie |-> RequestCookie(cookies)]
    IN /\ inflight' = Append(inflight, req)
       /\ log' = log \o Pacing(kind) \o <<ReqEv(req)>>
       /\ pc' = PcAfterIssue(kind)

Receive(resp, keys) ==
    /\ cookies' = Recorded(cookies, resp)
    /\ inflight' = Tail(inflight)
    /\ log' = Append(log, RespEv(Head(inflight), resp.setCookie, keys))

Goto(p, i, ds, j, obj, k, rs, files, code, errs) ==
    /\ pc' = p
    /\ f' = i
    /\ days' = ds
    /\ dayIdx' = j
    /\ seancesObj' = obj
    /\ keyIdx' = k
    /\ results' = rs
    /\ written' = files
    /\ exit' = code
    /\ stderr' = errs

\* Throw with the export run on the way out: the rows collected so far are saved
ThrowSavesRows(err, rs) ==
    Goto("done", f, days, dayIdx, seancesObj, keyIdx, rs, saveCSV(written, rs), "failure", Append(stderr, err))

\* main().catch: console.error("Error:", err); process.exit(1)
Throw(err, rs) ==
    Goto("done", f, days, dayIdx, seancesObj, keyIdx, rs, written, "failure", Append(stderr, err))

\* lines 552-559: sort, saveCSV, and main() returns
Finish(rs) ==
    Goto("done", f, days, dayIdx, seancesObj, keyIdx, SortRows(rs), saveCSV(written, SortRows(rs)),
         "success", stderr)

Undefined == [defined |-> FALSE, id |-> <<>>, title |-> <<>>]

\* list[i] of a JavaScript array, i counted from 0
ArrayAt(list, i) ==
    IF i + 1 <= Len(list)
    THEN [defined |-> TRUE, id |-> list[i + 1].id, title |-> list[i + 1].title]
    ELSE Undefined

\* line 466
SelectFilms(parsed) == <<ArrayAt(parsed, 1)>>

\* BeginFilm reading the film with optional chaining: a missing film is skipped
BeginFilmIgnoresUndefined(fs, i, rs) ==
    IF i > Len(fs) \/ ~fs[i].defined THEN Finish(rs)
    ELSE Goto("days_sleep", i, <<>>, 0, <<>>, 0, rs, written, exit, stderr)

\* the for loop over films reaches position i: film.title of line 476 throws a
\* TypeError on undefined, otherwise the sleep of line 477 starts
BeginFilm(fs, i, rs) ==
    IF i > Len(fs) THEN Finish(rs)
    ELSE IF ~fs[i].defined THEN Throw("TypeError", rs)
    ELSE Goto("days_sleep", i, <<>>, 0, <<>>, 0, rs, written, exit, stderr)

\* the for loop over days reaches position j
BeginDay(ds, j, rs) ==
    IF j > Len(ds) THEN BeginFilm(films, f + 1, rs)
    ELSE Goto("seances_sleep", f, ds, j, <<>>, 0, rs, written, exit, stderr)

\* BeginSeance with the loop bound off by one: the last key is not visited
BeginSeanceOffByOne(obj, k, rs) ==
    IF k >= Len(obj) THEN BeginDay(days, dayIdx + 1, rs)
    ELSE Goto("book_sleep", f, days, dayIdx, obj, k, rs, written, exit, stderr)

\* the for loop over seanceKeys reaches position k
BeginSeance(obj, k, rs) ==
    IF k > Len(obj) THEN BeginDay(days, dayIdx + 1, rs)
    ELSE Goto("book_sleep", f, days, dayIdx, obj, k, rs, written, exit, stderr)

\* MakeRow with `date: key` written for `date: day`
MakeRowDateFromKey(film, day, key, label, page) ==
    LET k == parseSeanceKey(Str(key))
        l == parseSeanceLabel(label)
    IN [cinema |-> CINEMA_SLUG,
        salle |-> extractSalle(page).salleNum,
        salle_label |-> extractSalle(page).salleLabel,
        film_id |-> film.id,
        film_titre |-> film.title,
        date |-> key,
        heure |-> l.time,
        version |-> IF l.version # <<>> THEN l.version ELSE k.version,
        audio |-> l.audio,
        seance_id |-> k.seanceId,
        ts |-> k.ts,
        reservation_url |-> extractReservationUrl(page)]

\* MakeRow with the placeholder of the console line (`salleLabel || "??"`)
\* written into the row
MakeRowUnknownRoom(film, day, key, label, page) ==
    LET k == parseSeanceKey(Str(key))
        l == parseSeanceLabel(label)
    IN [cinema |-> CINEMA_SLUG,
        salle |-> extractSalle(page).salleNum,
        salle_label |-> IF extractSalle(page).salleLabel # <<>> THEN extractSalle(page).salleLabel
                        ELSE <<"?", "?">>,
        film_id |-> film.id,
        film_titre |-> film.title,
        date |-> day,
        heure |-> l.time,
        version |-> IF l.version # <<>> THEN l.version ELSE k.version,
        audio |-> l.audio,
        seance_id |-> k.seanceId,
        ts |-> k.ts,
        reservation_url |-> extractReservationUrl(page)]

\* MakeRow with `verFromKey || verFromLbl` written for line 509
MakeRowKeyVersionFirst(film, day, key, label, page) ==
    LET k == parseSeanceKey(Str(key))
        l == parseSeanceLabel(label)
    IN [cinema |-> CINEMA_SLUG,
        salle |-> extractSalle(page).salleNum,
        salle_label |-> extractSalle(page).salleLabel,
        film_id |-> film.id,
        film_titre |-> film.title,
        date |-> day,
        heure |-> l.time,
        version |-> IF k.version # <<>> THEN k.version ELSE l.version,
        audio |-> l.audio,
        seance_id |-> k.seanceId,
        ts |-> k.ts,
        reservation_url |-> extractReservationUrl(page)]

\* lines 506-509 and 529-546
MakeRow(film, day, key, label, page) ==
    LET k == parseSeanceKey(Str(key))
        l == parseSeanceLabel(label)
    IN [cinema |-> CINEMA_SLUG,
        salle |-> extractSalle(page).salleNum,
        salle_label |-> extractSalle(page).salleLabel,
        film_id |-> film.id,
        film_titre |-> film.title,
        date |-> day,
        heure |-> l.time,
        version |-> IF l.version # <<>> THEN l.version ELSE k.version,
        audio |-> l.audio,
        seance_id |-> k.seanceId,
        ts |-> k.ts,
        reservation_url |-> extractReservationUrl(page)]

FilmIds(parsed) == [i \in DOMAIN parsed |-> parsed[i].id]

\* line 488, `if (!days.length) continue`: on to the next film
SkipFilm(rs) == BeginFilm(films, f + 1, rs)

\* SkipDay with `break` written for `continue`: the loop over days is left
SkipDayBreaks(rs) == BeginFilm(films, f + 1, rs)

\* SkipDay asking again for the showtimes of the day that listed none
SkipDayRetries(rs) == Goto("seances_sleep", f, days, dayIdx, <<>>, 0, rs, written, exit, stderr)

\* line 503, `if (!seanceKeys.length) continue`: on to the next day
SkipDay(rs) == BeginDay(days, dayIdx + 1, rs)

ListedKeys(listing) == [i \in DOMAIN listing |-> listing[i].k]

\* lines 459-465: the jar is created and the Seed request is issued
Start ==
    /\ pc = "start"
    /\ Issue("seed", <<>>, <<>>, <<>>)
    /\ UNCHANGED <<arg, ret, stub, cookies, films, f, days, dayIdx, seancesObj, keyIdx, results, written, exit, stderr>>

\* lines 466-477: the Seed response
SeedResponse ==
    /\ pc = "seed_fetch"
    /\ inflight # <<>>
    /\ \E resp \in SeedResponses :
          /\ Receive(resp, FilmIds(parseFilmsFromHTML(resp.page)))
          /\ films' = SelectFilms(parseFilmsFromHTML(resp.page))
          /\ IF Len(SelectFilms(parseFilmsFromHTML(resp.page))) = 0
             THEN Goto("done", f, days, dayIdx, seancesObj, keyIdx, results, written, "failure",
                       Append(stderr, "No films found"))
             ELSE BeginFilm(SelectFilms(parseFilmsFromHTML(resp.page)), 1, <<>>)
    /\ UNCHANGED <<arg, ret, stub>>

\* lines 477-484: the pacing timer fired, the Days request is issued
DaysRequest ==
    /\ pc = "days_sleep"
    /\ Issue("days", films[f].id, <<>>, <<>>)
    /\ UNCHANGED <<arg, ret, stub, cookies, films, f, days, dayIdx, seancesObj, keyIdx, results, written, exit, stderr>>

\* lines 485-492: the Days response
DaysResponse ==
    /\ pc = "days_fetch"
    /\ inflight # <<>>
    /\ \E resp \in DaysResponses :
          /\ Receive(resp, ListedKeys(resp.listing))
          /\ IF ObjectKeys(JsonObject(resp.listing)) = <<>>
             THEN SkipFilm(results)
             ELSE BeginDay(ObjectKeys(JsonObject(resp.listing)), 1, results)
    /\ UNCHANGED <<arg, ret, stub, films>>

\* lines 492-499: the pacing timer fired, the Showtimes request is issued
SeancesRequest ==
    /\ pc = "seances_sleep"
    /\ Issue("seances", films[f].id, days[dayIdx], <<>>)
    /\ UNCHANGED <<arg, ret, stub, cookies, films, f, days, dayIdx, seancesObj, keyIdx, results, written, exit, stderr>>

\* lines 500-513: the Showtimes response
SeancesResponse ==
    /\ pc = "seances_fetch"
    /\ inflight # <<>>
    /\ \E resp \in SeancesResponses :
          /\ Receive(resp, ListedKeys(resp.listing))
          /\ IF ObjectKeys(JsonObject(resp.listing)) = <<>>
             THEN SkipDay(results)
             ELSE BeginSeance(JsonObject(resp.listing), 1, results)
    /\ UNCHANGED <<arg, ret, stub, films>>

\* lines 513-527: the pacing timer fired, the Reveal request is issued
BookRequest ==
    /\ pc = "book_sleep"
    /\ Issue("book", films[f].id, days[dayIdx], ObjectKeys(seancesObj)[keyIdx])
    /\ UNCHANGED <<arg, ret, stub, cookies, films, f, days, dayIdx, seancesObj, keyIdx, results, written, exit, stderr>>

\* lines 529-547: the Reveal response; the row is pushed and the loops go on
BookResponse ==
    /\ pc = "book_fetch"
    /\ inflight # <<>>
    /\ \E resp \in BookResponses(Head(inflight)) :
          /\ Receive(resp, <<>>)
          /\ BeginSeance(seancesObj, keyIdx + 1,
                Append(results,
                       MakeRow(films[f], days[dayIdx], ObjectKeys(seancesObj)[keyIdx],
                               seancesObj[keyIdx].v, resp.page)))
    /\ UNCHANGED <<arg, ret, stub, films>>

\* fetch (or res.text()) rejects: the exception leaves main() and reaches
\* main().catch
TransportError ==
    /\ pc \in {"seed_fetch", "days_fetch", "seances_fetch", "book_fetch"}
    /\ inflight # <<>>
    /\ inflight' = Tail(inflight)
    /\ log' = Append(log, ErrEv(Head(inflight)))
    /\ Throw("Error", results)
    /\ UNCHANGED <<arg, ret, stub, cookies, films>>

Next ==
    \/ Start
    \/ SeedResponse
    \/ DaysRequest
    \/ DaysResponse
    \/ SeancesRequest
    \/ SeancesResponse
    \/ BookRequest
    \/ BookResponse
    \/ TransportError

Spec == Init /\ [][Next]_vars

\* main() is called, and a pacing timer that was set fires: the request that
\* waits for it is issued
TimersFire ==
    WF_vars(Start) /\ WF_vars(DaysRequest) /\ WF_vars(SeancesRequest) /\ WF_vars(BookRequest)

\* no request stays in flight for ever: it is answered (which ends the wait
\* for a failure) or it fails
RequestsSettle == WF_vars(TransportError)

\* the run under the scheduling of the event loop
FairSpec == Spec /\ TimersFire /\ RequestsSettle

(***************************************************************************)
(* Properties.                                                             *)
(***************************************************************************)
Events(type, kind) == {i \in DOMAIN log : log[i].type = type /\ log[i].kind = kind}

Requests == {i \in DOMAIN log : log[i].type = "req"}

\* the row r is the row of the showtime the request or event e names
RowOf(r, e) ==
    /\ r.film_id = e.film
    /\ r.date = e.day
    /\ r.seance_id = parseSeanceKey(Str(e.key)).seanceId
    /\ r.ts = parseSeanceKey(Str(e.key)).ts

\* C1: every row of results belongs to a showtime whose Reveal response has
\* been received, there are never more rows than Reveal responses, and a
\* showtime whose Reveal request is still in flight has no row.
C1_RowOnlyAfterReveal ==
    /\ Len(results) <= Cardinality(Events("resp", "book"))
    /\ \A n \in DOMAIN results : \E i \in Events("resp", "book") : RowOf(results[n], log[i])
    /\ \A q \in DOMAIN inflight :
          inflight[q].kind = "book" => \A n \in DOMAIN results : ~RowOf(results[n], inflight[q])

\* a Reveal request is in flight while the row of an earlier showtime is held
C1_Witness == pc = "book_fetch" /\ Len(inflight) = 1 /\ Len(results) >= 1

SeedListed(n) == \E i \in Events("resp", "seed") : Len(log[i].keys) = n

\* C2: once the Seed response yields an empty film list the run has ended
\* with a failure exit and a reported error, no Days, Showtimes or Reveal
\* request was issued and nothing was written.
C2_NoFilmAborts ==
    SeedListed(0) =>
        /\ pc = "done"
        /\ exit = "failure"
        /\ stderr # <<>>
        /\ written = <<>>
        /\ \A i \in Requests : log[i].kind = "seed"

\* the Seed page listed no film and the run is over
C2_Witness == SeedListed(0) /\ exit = "failure" /\ Cardinality(Events("resp", "seed")) = 1

NoTransportError == \A i \in DOMAIN log : log[i].type # "error"

\* every Days and Showtimes response received so far lists exactly one key
OneKeyPerListing ==
    \A i \in Events("resp", "days") \cup Events("resp", "seances") : Len(log[i].keys) = 1

\* C3 (as claimed): a run against a site with one film, one day and one
\* showtime, whose booking page shows a numeric room marker, ends
\* successfully with exactly one row, built from that film, day, key and label.
C3_OneFilmOneRow ==
    (pc = "done" /\ SeedListed(1) /\ OneKeyPerListing /\ NoTransportError) =>
        /\ exit = "success"
        /\ Len(results) = 1
        /\ \E s \in Events("resp", "seed"), d \in Events("resp", "days"), k \in Events("resp", "seances") :
              LET key == log[k].keys[1]
                  day == log[d].keys[1]
              IN /\ results[1].film_id = log[s].keys[1]
                 /\ results[1].date = day
                 /\ results[1].seance_id = parseSeanceKey(Str(key)).seanceId
                 /\ results[1].ts = parseSeanceKey(Str(key)).ts
                 /\ results[1].heure = parseSeanceLabel(LabelOf(key)).time
                 /\ results[1].audio = parseSeanceLabel(LabelOf(key)).audio
                 /\ results[1].salle = extractSalle(RevealPage(day, key)).salleNum

\* C4 (as claimed): every request, the Seed request included, comes right
\* after a pacing suspension of DELAY_MS.
C4_EveryRequestPaced ==
    \A i \in Requests : i > 1 /\ log[i - 1].type = "sleep" /\ log[i - 1].ms = DELAY_MS

\* C4 (amended): every Days, Showtimes and Reveal request comes right after a
\* pacing suspension of DELAY_MS; the Seed request is the first event of the
\* run and has no suspension before it.
C4_FollowUpRequestsPaced ==
    \A i \in Requests :
        IF log[i].kind = "seed" THEN i = 1
        ELSE i > 1 /\ log[i - 1].type = "sleep" /\ log[i - 1].ms = DELAY_MS

\* requests of all four kinds have been issued
C4_Witness == \A kind \in {"seed", "days", "seances", "book"} : Events("req", kind) # {}

NotSleep(e) == e.type # "sleep"

\* the requests and what came back for them, without the suspensions
Traffic == SelectSeq(log, NotSleep)

SameRequest(a, b) == a.kind = b.kind /\ a.film = b.film /\ a.day = b.day /\ a.key = b.key /\ a.cookie = b.cookie

\* C5: requests and their outcomes alternate: a request is issued only when
\* every earlier request has got its response, and at most one request is in
\* flight at any time.
C5_OneRequestInFlight ==
    /\ Len(inflight) <= 1
    /\ \A i \in DOMAIN Traffic :
          IF i % 2 = 1 THEN Traffic[i].type = "req"
          ELSE Traffic[i].type \in {"resp", "error"} /\ SameRequest(Traffic[i], Traffic[i - 1])
    /\ Len(inflight) = Len(Traffic) % 2
    /\ (inflight # <<>> => SameRequest(inflight[1], Traffic[Len(Traffic)]))

\* the eighth request of a run is in flight, the seven before it answered
C5_Witness == Len(inflight) = 1 /\ Len(Traffic) = 15

\* the requests of kind take issued from position j of the log on, up to the
\* next response of kind stop
RECURSIVE RequestsUntil(_, _, _)
RequestsUntil(j, stop, take) ==
    IF j > Len(log) \/ (log[j].type = "resp" /\ log[j].kind = stop) THEN <<>>
    ELSE (IF log[j].type = "req" /\ log[j].kind = take THEN <<log[j]>> ELSE <<>>)
         \o RequestsUntil(j + 1, stop, take)

\* the keys of the Reveal requests that follow the Showtimes response log[i]
RevealKeysAfter(i) ==
    [n \in DOMAIN RequestsUntil(i + 1, "seances", "book") |-> RequestsUntil(i + 1, "seances", "book")[n].key]

\* the days of the Showtimes requests that follow the Days response log[i]
DaysAfter(i) ==
    [n \in DOMAIN RequestsUntil(i + 1, "days", "seances") |-> RequestsUntil(i + 1, "days", "seances")[n].day]

IsPrefix(a, b) == Len(a) <= Len(b) /\ a = SubSeq(b, 1, Len(a))

\* every Reveal request is for the day of the latest Showtimes request
RevealsInsideTheirDay ==
    \A i \in Events("req", "book") :
        \E j \in Events("req", "seances") :
            /\ j < i
            /\ log[j].day = log[i].day
            /\ \A m \in Events("req", "seances") : m < i => m <= j

\* C6 (as claimed): days are requested in the order the Days response lists
\* them, the showtimes of a day in the order the Showtimes response lists
\* them, and the Reveal requests of a day lie between its Showtimes request
\* and the next one.
C6_ListedOrder ==
    /\ \A i \in Events("resp", "days") : IsPrefix(DaysAfter(i), log[i].keys)
    /\ \A i \in Events("resp", "seances") : IsPrefix(RevealKeysAfter(i), log[i].keys)
    /\ RevealsInsideTheirDay

NotArrayIndex(k) == ~IsArrayIndex(k)

\* canonical numeric strings in ascending numeric order
RECURSIVE NumericSort(_)
NumericSort(l) ==
    IF l = <<>> THEN <<>>
    ELSE LET rest == NumericSort(Tail(l))
             n == Cardinality({i \in DOMAIN rest : NumericLess(rest[i], Head(l))})
         IN SubSeq(rest, 1, n) \o <<Head(l)>> \o SubSeq(rest, n + 1, Len(rest))

\* the order in which a listing of distinct keys is walked: the array-index
\* keys in ascending numeric order, then the other keys as listed
EnumerationOrder(l) == NumericSort(SelectSeq(l, IsArrayIndex)) \o SelectSeq(l, NotArrayIndex)

\* C6 (amended): days and showtimes are requested in the enumeration order
\* of the keys of the response (array-index keys first, ascending, the
\* others as listed), completely so in a successful run, and the Reveal
\* requests of a day lie between its Showtimes request and the next one.
C6_EnumerationOrder ==
    /\ \A i \in Events("resp", "days") :
          /\ IsPrefix(DaysAfter(i), EnumerationOrder(log[i].keys))
          /\ (exit = "success" => DaysAfter(i) = EnumerationOrder(log[i].keys))
    /\ \A i \in Events("resp", "seances") :
          /\ IsPrefix(RevealKeysAfter(i), EnumerationOrder(log[i].keys))
          /\ (exit = "success" => RevealKeysAfter(i) = EnumerationOrder(log[i].keys))
    /\ RevealsInsideTheirDay

\* a successful run over two days, one of which listed an array-index key
\* behind another key and had both showtimes revealed
C6_Witness ==
    /\ exit = "success"
    /\ \E i \in Events("resp", "days") : Len(log[i].keys) = 2
    /\ \E i \in Events("resp", "seances") :
          /\ Len(log[i].keys) = 2
          /\ IsArrayIndex(log[i].keys[2])
          /\ Len(RevealKeysAfter(i)) = 2

\* the jar after recording the responses among the first n events of the log
RECURSIVE JarAt(_)
JarAt(n) ==
    IF n = 0 THEN <<>>
    ELSE IF log[n].type = "resp" THEN setFrom(JarAt(n - 1), HeadersGet(log[n].setCookie))
    ELSE JarAt(n - 1)

\* C7: the Cookie header of every request is the serialization of the jar
\* that results from recording all responses received before it, no header
\* at all while that jar is empty, and the first request carries none.
C7_CookieContinuity ==
    /\ \A i \in Requests :
          /\ log[i].cookie = apply(JarAt(i - 1))
          /\ (JarAt(i - 1) = <<>> => ~log[i].cookie.set)
          /\ (i = 1 => log[i].cookie = NoHeader)
    /\ cookies = JarAt(Len(log))

\* two requests of a run carry different Cookie headers
C7_Witness ==
    \E i, j \in Requests :
        i < j /\ log[i].cookie.set /\ log[j].cookie.set /\ log[i].cookie # log[j].cookie

\* the leading name=value pair of a Set-Cookie line
LeadingPair(line) ==
    LET first == Split(line, <<";">>)[1]
        eq == IndexOf(first, <<"=">>)
    IN [ok |-> eq # 0,
        name |-> IF eq = 0 THEN <<>> ELSE Trim(SubSeq(first, 1, eq - 1)),
        value |-> IF eq = 0 THEN <<>> ELSE Trim(SubSeq(first, eq + 1, Len(first)))]

\* C8 (as claimed): right after a response is recorded the jar holds, for
\* every Set-Cookie line of it that has a name=value pair, that name with the
\* value of the last such line of the response.
C8_EveryDirectiveStored ==
    (log # <<>> /\ log[Len(log)].type = "resp") =>
        LET lines == log[Len(log)].setCookie
        IN \A n \in DOMAIN lines :
              LeadingPair(lines[n]).ok =>
                  /\ HasKey(cookies, LeadingPair(lines[n]).name)
                  /\ \E m \in n..Len(lines) :
                        /\ LeadingPair(lines[m]).ok
                        /\ LeadingPair(lines[m]).name = LeadingPair(lines[n]).name
                        /\ ObjGet(cookies, LeadingPair(lines[n]).name) = LeadingPair(lines[m]).value
                        /\ \A q \in (m + 1)..Len(lines) :
                              ~(LeadingPair(lines[q]).ok /\ LeadingPair(lines[q]).name = LeadingPair(lines[n]).name)

RowsOfDay(day) == Cardinality({n \in DOMAIN results : results[n].date = day})

\* C9: an empty Days response ends the film without any Showtimes request
\* and the run ends successfully; an empty Showtimes response leads to no
\* Reveal request and no row for that day, the run goes on with the next day
\* (or ends successfully after the last), and in a successful run every day
\* has as many rows as its Showtimes response listed keys.
C9_EmptyListingSkipsBranch ==
    /\ \A i \in Events("resp", "days") :
          log[i].keys = <<>> =>
              /\ i = Len(log)
              /\ Events("req", "seances") = {}
              /\ pc = "done" /\ exit = "success"
    /\ \A i \in Events("resp", "seances") :
          log[i].keys = <<>> =>
              /\ \A j \in Events("req", "book") : log[j].day # log[i].day
              /\ RowsOfDay(log[i].day) = 0
              /\ IF i < Len(log)
                 THEN /\ i + 2 <= Len(log)
                      /\ log[i + 1].type = "sleep"
                      /\ log[i + 2].type = "req" /\ log[i + 2].kind = "seances"
                      /\ log[i + 2].day # log[i].day
                 ELSE IF log[i].day = days[Len(days)]
                 THEN pc = "done" /\ exit = "success"
                 ELSE pc = "seances_sleep" /\ exit = "running" /\ dayIdx > 1 /\ days[dayIdx - 1] = log[i].day
    /\ (exit = "success" => \A i \in Events("resp", "seances") : RowsOfDay(log[i].day) = Len(log[i].keys))

\* a successful run whose first day had no showtime and whose second day has rows
C9_Witness ==
    /\ exit = "success"
    /\ Len(results) >= 1
    /\ \E i, j \in Events("resp", "seances") : i < j /\ log[i].keys = <<>> /\ log[j].keys # <<>>

\* how many showtime keys the Showtimes responses among the first n events listed
RECURSIVE KeysListed(_)
KeysListed(n) ==
    IF n = 0 THEN 0
    ELSE KeysListed(n - 1)
         + (IF log[n].type = "resp" /\ log[n].kind = "seances" THEN Len(log[n].keys) ELSE 0)

Copies(rows, r) == Cardinality({n \in DOMAIN rows : rows[n] = r})

\* every row held before the step is held after it, as often
RowsKept == \A n \in DOMAIN results : Copies(results', results[n]) >= Copies(results, results[n])

\* C10: a successful run ends with as many rows as showtime keys were listed
\* over all days, no showtime is revealed twice, and no step changes or
\* removes a row that was appended (the sort only reorders).
C10_OneRowPerShowtime ==
    /\ [](exit = "success" => Len(results) = KeysListed(Len(log)))
    /\ [](\A i, j \in Events("req", "book") :
              (log[i].film = log[j].film /\ log[i].day = log[j].day /\ log[i].key = log[j].key) => i = j)
    /\ [][RowsKept]_vars

\* a successful run that ends with the rows of two days
C10_Witness ==
    /\ exit = "success"
    /\ Len(results) >= 3
    /\ Len(results) = KeysListed(Len(log))

\* C11 (as claimed): a run that ended with a success exit has written the
\* output file exactly once, holding the sorted rows, with every request
\* answered before; also when no row was collected.
C11_SuccessWroteOnce ==
    exit = "success" =>
        /\ Len(written) = 1
        /\ inflight = <<>>
        /\ log[Len(log)].type = "resp"
        /\ (results # <<>> => written = saveCSV(<<>>, results))

\* C12: a transport error is the last event of the run: the run has ended
\* with a failure exit and a reported error, no request is in flight or was
\* issued after it, and nothing was written, whatever rows were held.
C12_TransportErrorFatal ==
    \A i \in DOMAIN log :
        log[i].type = "error" =>
            /\ i = Len(log)
            /\ pc = "done"
            /\ exit = "failure"
            /\ stderr = <<"Error">>
            /\ inflight = <<>>
            /\ written = <<>>

\* a Reveal request failed while rows of earlier showtimes were held
C12_Witness ==
    /\ log # <<>>
    /\ log[Len(log)].type = "error"
    /\ log[Len(log)].kind = "book"
    /\ Len(results) >= 1

\* C13 (as claimed): in a successful run every film the Seed response lists
\* got its Days request.
C13_EveryFilmRequested ==
    exit = "success" =>
        \A s \in Events("resp", "seed") :
            \A n \in DOMAIN log[s].keys :
                \E d \in Events("req", "days") : log[d].film = log[s].keys[n]

HasDigit(s) == \E i \in DOMAIN s : IsDigit(s[i])

\* no image of the page carries a digit in any attribute or the ICE class
NoRoomMarker(page) ==
    \A i \in DOMAIN page.imgs :
        /\ ~HasDigit(page.imgs[i].src) /\ ~HasDigit(page.imgs[i].class)
        /\ ~HasDigit(page.imgs[i].alt) /\ ~HasDigit(page.imgs[i].title)
        /\ page.imgs[i].class # TagIce

\* no seat-selection form with an action on the page
NoBookingForm(page) ==
    \A i \in DOMAIN page.forms : page.forms[i].id # FfSelPlace \/ page.forms[i].action = <<>>

\* the Reveal responses whose page shows no room, or no seat-selection form
RevealMisses ==
    {i \in Events("resp", "book") :
        NoRoomMarker(RevealPage(log[i].day, log[i].key)) \/ NoBookingForm(RevealPage(log[i].day, log[i].key))}

\* C14: a Reveal response whose page shows no room marker, or no
\* seat-selection form, raises nothing: no error is reported for it, its
\* showtime has its row, with empty room number and room label
\* (respectively an empty reservation URL), and unless it was the last
\* showtime of the day the Reveal request of the next one follows.
C14_MissGivesEmptyFields ==
    \A i \in RevealMisses :
        LET page == RevealPage(log[i].day, log[i].key)
        IN /\ (exit = "failure" => log[Len(log)].type = "error")
           /\ \E n \in DOMAIN results :
                 /\ RowOf(results[n], log[i])
                 /\ (NoRoomMarker(page) => results[n].salle = <<>> /\ results[n].salle_label = <<>>)
                 /\ (NoBookingForm(page) => results[n].reservation_url = <<>>)
           /\ \A s \in Events("resp", "seances") :
                 (s < i /\ (\A m \in Events("resp", "seances") : m < i => m <= s)) =>
                     LET order == EnumerationOrder(log[s].keys)
                     IN \A q \in 1..(Len(order) - 1) :
                           (order[q] = log[i].key /\ i < Len(log)) =>
                               /\ i + 2 <= Len(log)
                               /\ log[i + 1].type = "sleep"
                               /\ log[i + 2].type = "req" /\ log[i + 2].kind = "book"
                               /\ log[i + 2].key = order[q + 1]

\* a successful run that revealed a page without room marker and a page
\* without seat-selection form, one of them before another showtime of its day
C14_Witness ==
    /\ exit = "success"
    /\ \E i \in RevealMisses : NoRoomMarker(RevealPage(log[i].day, log[i].key))
    /\ \E i \in RevealMisses :
          /\ NoBookingForm(RevealPage(log[i].day, log[i].key))
          /\ i + 2 <= Len(log) /\ log[i + 2].kind = "book"

\* the responses among the log whose Set-Cookie lines set the name
SettersOf(name) ==
    {i \in DOMAIN log :
        /\ log[i].type = "resp"
        /\ \E n \in DOMAIN log[i].setCookie :
              LeadingPair(log[i].setCookie[n]).ok /\ LeadingPair(log[i].setCookie[n]).name = name}

\* the value the Set-Cookie lines give the name: that of the last line naming it
ValueGiven(lines, name) ==
    LET naming == {n \in DOMAIN lines : LeadingPair(lines[n]).ok /\ LeadingPair(lines[n]).name = name}
    IN LeadingPair(lines[CHOOSE n \in naming : \A m \in naming : m <= n]).value

\* C19 (as claimed): the jar never loses a name it held after an earlier
\* response, every name it holds was set by a response, and the value it
\* holds for a name is the value given by the latest response that set it.
C19_MonotoneLatestValue ==
    /\ \A i \in DOMAIN log : \A n \in DOMAIN JarAt(i) : HasKey(cookies, JarAt(i)[n].k)
    /\ \A n \in DOMAIN cookies :
          /\ SettersOf(cookies[n].k) # {}
          /\ LET last == CHOOSE i \in SettersOf(cookies[n].k) : \A j \in SettersOf(cookies[n].k) : j <= i
             IN cookies[n].v = ValueGiven(log[last].setCookie, cookies[n].k)

\* the part of C19 that holds: no step removes a name from the jar
C19_NamesKept ==
    \A i \in DOMAIN log : \A n \in DOMAIN JarAt(i) : HasKey(cookies, JarAt(i)[n].k)

(***************************************************************************)
(* Function-level specifications: a function of the module applied on its  *)
(* own to an argument drawn from a pool, main() not running.               *)
(***************************************************************************)
main == <<stub, pc, cookies, inflight, films, f, days, dayIdx, seancesObj, keyIdx,
          results, written, exit, stderr, log>>

\* main() is not running
Idle ==
    /\ stub = "none"
    /\ pc = "idle"
    /\ cookies = <<>>
    /\ inflight = <<>>
    /\ films = <<>>
    /\ f = 0
    /\ days = <<>>
    /\ dayIdx = 0
    /\ seancesObj = <<>>
    /\ keyIdx = 0
    /\ results = <<>>
    /\ written = <<>>
    /\ exit = "running"
    /\ stderr = <<>>
    /\ log = <<>>

\* all sequences over the set S of length at most n
SeqsUpTo(S, n) == UNION {[1..m -> S] : m \in 0..n}

(***************************************************************************)
(* The sort and the export of lines 552-558 on collected rows.             *)
(***************************************************************************)
\* the showtimes of a room: two on the first day, one on the second
SortShowtimes ==
    {[day |-> <<"2", "0", "2", "5", "-", "0", "8", "-", "2", "4">>,
      label |-> Str(<<"1", "4", "h", "0", "0", " ", "-", " ", "V", "F">>)],
     [day |-> <<"2", "0", "2", "5", "-", "0", "8", "-", "2", "4">>,
      label |-> Str(<<"9", "h", "3", "0">>)],
     [day |-> <<"2", "0", "2", "5", "-", "0", "8", "-", "2", "5">>,
      label |-> Str(<<"1", "4", "h", "0", "0", " ", "-", " ", "V", "F">>)]}

\* the rows main() builds for a film over these showtimes and booking pages
\* that show room 6, the ICE room and no room
RowPool ==
    {MakeRow(parseFilmsFromHTML(SessionSeedPage)[2], st.day, AllKeys[1], st.label, page) :
        st \in SortShowtimes,
        page \in {RevealPage(AllDays[1], AllKeys[1]), RevealPage(AllDays[1], AllKeys[2]),
                  RevealPage(AllDays[2], AllKeys[2])}}

SortInit ==
    /\ Idle
    /\ arg \in {[fn |-> "sort", rows |-> rows] : rows \in SeqsUpTo(RowPool, MaxRows)}
    /\ ret = NoResult

\* lines 552-558: results.sort(...) and saveCSV(OUTPUT_CSV, results)
SortAndSave ==
    /\ arg.fn = "sort"
    /\ ~ret.done
    /\ ret' = [done |-> TRUE, rows |-> SortRows(arg.rows), files |-> saveCSV(<<>>, SortRows(arg.rows))]
    /\ UNCHANGED <<arg, main>>

SortSpec == SortInit /\ [][SortAndSave]_vars

\* the characters of the model's alphabet in code-unit order
CodeUnitChars ==
    <<"\n", " ", "\"", ",", "-", ".", "/">> \o DigitChars \o <<":", ";", "=", "?">> \o UpperChars
        \o <<"[", "]", "_">> \o LowerChars

CodeUnit(c) == CHOOSE i \in DOMAIN CodeUnitChars : CodeUnitChars[i] = c

\* a sorts before b in the lexicographic order of the code units
RECURSIVE LexLess(_, _)
LexLess(a, b) ==
    IF b = <<>> THEN FALSE
    ELSE IF a = <<>> THEN TRUE
    ELSE IF Head(a) # Head(b) THEN CodeUnit(Head(a)) < CodeUnit(Head(b))
    ELSE LexLess(Tail(a), Tail(b))

\* C15: in the rows handed to the writer, two rows with different rooms
\* stand in ascending lexicographic room order, two rows of one room in
\* ascending date order, two rows of one room and date in ascending order of
\* the time string; the rows are the collected rows, each as often as it was
\* collected, and the file lists them in that order under the header line.
C15_SortedByRoomDateTime ==
    ret.done =>
        /\ \A i, j \in DOMAIN ret.rows :
              i < j =>
                  IF ret.rows[i].salle # ret.rows[j].salle
                  THEN LexLess(ret.rows[i].salle, ret.rows[j].salle)
                  ELSE IF ret.rows[i].date # ret.rows[j].date
                  THEN LexLess(ret.rows[i].date, ret.rows[j].date)
                  ELSE ~LexLess(ret.rows[j].heure, ret.rows[i].heure)
        /\ Len(ret.rows) = Len(arg.rows)
        /\ \A n \in DOMAIN arg.rows : Copies(ret.rows, arg.rows[n]) = Copies(arg.rows, arg.rows[n])
        /\ (arg.rows # <<>> =>
               ret.files = <<Join(<<toCsvRow(RowHeaders)>>
                                     \o [n \in DOMAIN ret.rows |-> toCsvRow(RowValues(ret.rows[n]))],
                                  <<"\n">>)>>)

\* three rows collected out of order came back sorted: two of one room and
\* day that differ in the time, behind a row of another room
C15_Witness ==
    /\ ret.done
    /\ Len(arg.rows) = 3
    /\ ret.rows # arg.rows
    /\ ret.rows[1].salle # ret.rows[2].salle
    /\ ret.rows[2].salle = ret.rows[3].salle
    /\ ret.rows[2].date = ret.rows[3].date
    /\ ret.rows[2].heure # ret.rows[3].heure

(***************************************************************************)
(* The decoders of lines 447-455 on keys and labels of any shape.          *)
(***************************************************************************)
\* a segment as it is written and as it reads with the white space around it
\* removed; no segment holds a separator
Segment(raw, text) == [raw |-> raw, text |-> text]

Segments ==
    {Segment(<<>>, <<>>), Segment(<<"1", "7">>, <<"1", "7">>), Segment(<<"V", "F">>, <<"V", "F">>), Segment(<<" ", "5", " ">>, <<"5">>), Segment(<<"a", "-", "b">>, <<"a", "-", "b">>)}

\* values that are no strings, with what String() prints for them
NonStrings ==
    {[value |-> Null, text |-> <<"n", "u", "l", "l">>],
     [value |-> Undef, text |-> <<"u", "n", "d", "e", "f", "i", "n", "e", "d">>],
     [value |-> NumberValue(Num(17)), text |-> <<"1", "7">>],
     [value |-> NumberValue(NaN), text |-> <<"N", "a", "N">>],
     [value |-> [kind |-> "boolean", bool |-> TRUE], text |-> <<"t", "r", "u", "e">>],
     [value |-> Arr(<<Str(<<"a">>), Null, Str(<<"b">>)>>), text |-> <<"a", ",", ",", "b">>],
     [value |-> [kind |-> "object"], text |-> <<"[", "o", "b", "j", "e", "c", "t", " ", "O", "b", "j", "e", "c", "t", "]">>]}

\* the arguments of a decoder: the segments joined by its separator, or a
\* value that is no string (it reads as one segment)
DecoderArgs(fn, sep) ==
    {[fn |-> fn, value |-> Str(Join([i \in DOMAIN segs |-> segs[i].raw], sep)), segs |-> segs] :
        segs \in SeqsUpTo(Segments, MaxSegments)}
    \cup {[fn |-> fn, value |-> v.value, segs |-> <<Segment(v.text, v.text)>>] : v \in NonStrings}

DecodeInit ==
    /\ Idle
    /\ arg \in DecoderArgs("parseSeanceKey", <<"/">>) \cup DecoderArgs("parseSeanceLabel", <<" ", "-", " ">>)
    /\ ret = NoResult

DecodeKey ==
    /\ arg.fn = "parseSeanceKey"
    /\ ~ret.done
    /\ ret' = [done |-> TRUE, out |-> parseSeanceKey(arg.value)]
    /\ UNCHANGED <<arg, main>>

DecodeLabel ==
    /\ arg.fn = "parseSeanceLabel"
    /\ ~ret.done
    /\ ret' = [done |-> TRUE, out |-> parseSeanceLabel(arg.value)]
    /\ UNCHANGED <<arg, main>>

DecodeNext == DecodeKey \/ DecodeLabel

DecodeSpec == DecodeInit /\ [][DecodeNext]_vars

\* the i-th segment as written, the empty string when there is none
RawAt(segs, i) == IF i <= Len(segs) THEN segs[i].raw ELSE <<>>

\* the i-th segment as it reads, the empty string when there is none
TextAt(segs, i) == IF i <= Len(segs) THEN segs[i].text ELSE <<>>

SrcValues ==
    {[text |-> <<>>, room |-> <<>>, label |-> <<>>, sel |-> FALSE],
     [text |-> <<"/", "i", "m", "g", "/", "t", "a", "g", "s", "/", "s", "a", "l", "_", "6", ".", "p", "n", "g">>, room |-> <<"0", "6">>, label |-> <<"S", "a", "l", "l", "e", " ", "6">>, sel |-> TRUE],
     [text |-> <<"/", "i", "m", "g", "/", "t", "a", "g", "s", "/", "s", "a", "l", "_", "x", ".", "p", "n", "g">>, room |-> <<>>, label |-> <<>>, sel |-> TRUE],
     [text |-> <<"/", "i", "/", "S", "A", "L", "_", "1", "2", ".", "P", "N", "G">>, room |-> <<"1", "2">>, label |-> <<"S", "a", "l", "l", "e", " ", "1", "2">>, sel |-> FALSE]}

ClassValues ==
    {[text |-> <<>>, room |-> <<>>, label |-> <<>>, sel |-> FALSE],
     [text |-> <<"t", "a", "g", " ", "t", "a", "g", "-", "S", "A", "L", "1", "0">>, room |-> <<"1", "0">>, label |-> <<"S", "a", "l", "l", "e", " ", "1", "0">>, sel |-> TRUE],
     [text |-> <<"t", "a", "g", " ", "t", "a", "g", "-", "I", "C", "E", "B", "Y", "C", "G", "R">>, room |-> <<>>, label |-> <<>>, sel |-> TRUE],
     [text |-> <<"t", "a", "g", "-", "s", "a", "l", "7">>, room |-> <<"0", "7">>, label |-> <<"S", "a", "l", "l", "e", " ", "7">>, sel |-> FALSE],
     [text |-> <<"x", " ", "t", "a", "g", "-", "S", "A", "L">>, room |-> <<>>, label |-> <<>>, sel |-> TRUE]}

AltValues ==
    {[text |-> <<>>, room |-> <<>>, label |-> <<>>, sel |-> FALSE],
     [text |-> <<"S", "a", "l", "l", "e", " ", "3">>, room |-> <<"0", "3">>, label |-> <<"S", "a", "l", "l", "e", " ", "3">>, sel |-> FALSE],
     [text |-> <<"s", "a", "l", "l", "e", " ", " ", "1", "2">>, room |-> <<"1", "2">>, label |-> <<"S", "a", "l", "l", "e", " ", "1", "2">>, sel |-> FALSE],
     [text |-> <<"I", "C", "E">>, room |-> <<>>, label |-> <<>>, sel |-> FALSE]}

TitleValues ==
    {[text |-> <<>>, room |-> <<>>, label |-> <<>>, sel |-> FALSE],
     [text |-> <<"S", "A", "L", "L", "E", "4">>, room |-> <<"0", "4">>, label |-> <<"S", "a", "l", "l", "e", " ", "4">>, sel |-> FALSE],
     [text |-> <<"S", "a", "l", "l", "e", " ", "I", "C", "E">>, room |-> <<>>, label |-> <<>>, sel |-> FALSE]}

\* an image that is no room tag, and a room tag further down the page
Logo == Img(<<"/", "l", "o", "g", "o", ".", "p", "n", "g">>, <<>>, <<"C", "G", "R">>, <<>>)

LaterTag == Img(<<"/", "i", "m", "g", "/", "t", "a", "g", "s", "/", "s", "a", "l", "_", "9", "9", ".", "p", "n", "g">>, <<>>, <<>>, <<>>)

\* the page with the image of these attribute values, alone or with Logo
\* before it and LaterTag behind it
SallePage(a) ==
    [selects |-> <<>>,
     imgs |-> (IF a.lead THEN <<Logo>> ELSE <<>>)
              \o <<Img(a.src.text, a.class.text, a.alt.text, a.title.text)>>
              \o (IF a.trail THEN <<LaterTag>> ELSE <<>>),
     forms |-> <<>>]

SalleInit ==
    /\ Idle
    /\ arg \in {[fn |-> "extractSalle", src |-> src, class |-> class, alt |-> alt, title |-> title,
                  lead |-> lead, trail |-> trail] :
                    src \in SrcValues, class \in ClassValues, alt \in AltValues, title \in TitleValues,
                    lead \in BOOLEAN, trail \in BOOLEAN}
    /\ ret = NoResult

ExtractSalle ==
    /\ arg.fn = "extractSalle"
    /\ ~ret.done
    /\ ret' = [done |-> TRUE, out |-> extractSalle(SallePage(arg))]
    /\ UNCHANGED <<arg, main>>

SalleSpec == SalleInit /\ [][ExtractSalle]_vars

\* the attribute values of the image in the order of priority
Priority(a) == <<a.src, a.class, a.alt, a.title>>

NamesRoom(a) == \E i \in 1..4 : Priority(a)[i].room # <<>>

\* the first attribute in the order of priority that names a room
FirstNaming(a) ==
    Priority(a)[CHOOSE i \in 1..4 : Priority(a)[i].room # <<>> /\ \A j \in 1..(i - 1) : Priority(a)[j].room = <<>>]

Room(num, label) == [salleNum |-> num, salleLabel |-> label]

\* C17: when the image is the one inspected (the first of the page the
\* selector picks), the result is the room of the first of src, class, alt
\* and title that names one, as zero-padded two-digit number; it is the ICE
\* room only when none of the four names a room and the class is the ICE
\* class, and empty otherwise.  An image the selector does not pick is passed
\* over for the next room tag of the page.
C17_MarkerPriority ==
    ret.done =>
        /\ IF arg.src.sel \/ arg.class.sel
           THEN IF NamesRoom(arg) THEN ret.out = Room(FirstNaming(arg).room, FirstNaming(arg).label)
                ELSE IF arg.class.text = TagIce THEN ret.out = Room(<<"I", "C", "E">>, <<"S", "a", "l", "l", "e", " ", "I", "C", "E">>)
                ELSE ret.out = Room(<<>>, <<>>)
           ELSE IF arg.trail THEN ret.out = Room(<<"9", "9">>, <<"S", "a", "l", "l", "e", " ", "9", "9">>)
                ELSE ret.out = Room(<<>>, <<>>)
        /\ (ret.out.salleNum = <<"I", "C", "E">> => ~NamesRoom(arg) /\ arg.class.text = TagIce)
        /\ ((NamesRoom(arg) /\ (arg.src.sel \/ arg.class.sel)) =>
               Len(ret.out.salleNum) = 2 /\ AllDigits(ret.out.salleNum))

\* an image of the ICE class whose alt and title name rooms 3 and 4 gave room 03
C17_Witness ==
    /\ ret.done
    /\ arg.class.text = TagIce
    /\ arg.src.room = <<>>
    /\ arg.alt.room = <<"0", "3">>
    /\ arg.title.room = <<"0", "4">>
    /\ ret.out = Room(<<"0", "3">>, <<"S", "a", "l", "l", "e", " ", "3">>)

(***************************************************************************)
(* The export of lines 385-397 on rows whose fields hold the characters    *)
(* the format gives a meaning to.                                          *)
(***************************************************************************)
\* a letter, the delimiter, the quote and the line break
FieldChars == {"a", ",", "\"", "\n"}

\* a row of main() with the two values as film title and reservation URL
RowWith(title, url) ==
    [MakeRow(parseFilmsFromHTML(SessionSeedPage)[2], AllDays[1], AllKeys[1], LabelOf(AllKeys[1]),
             RevealPage(AllDays[1], AllKeys[1]))
        EXCEPT !.film_titre = title, !.reservation_url = url]

CsvInit ==
    /\ Idle
    /\ arg \in {[fn |-> "saveCSV", row |-> RowWith(title, url), other |-> RowWith(url, title)] :
                    title \in SeqsUpTo(FieldChars, MaxFieldLen), url \in SeqsUpTo(FieldChars, MaxFieldLen)}
    /\ ret = NoResult

\* toCsvRow on the values of the row, and saveCSV on the two rows
SaveRows ==
    /\ arg.fn = "saveCSV"
    /\ ~ret.done
    /\ ret' = [done |-> TRUE,
               line |-> toCsvRow(RowValues(arg.row)),
               files |-> saveCSV(<<>>, <<arg.row, arg.other>>)]
    /\ UNCHANGED <<arg, main>>

CsvSpec == CsvInit /\ [][SaveRows]_vars

\* A reader of the format: a field in quotes runs to its closing quote and a
\* doubled quote inside it is one quote, so a character stands outside of
\* quotes when an even number of quote characters precede it; records end at
\* the line breaks outside of quotes, fields at the commas outside of quotes.
Outside(s, p) == Cardinality({j \in 1..(p - 1) : s[j] = "\""}) % 2 = 0

Breaks(s, c) == {p \in DOMAIN s : s[p] = c /\ Outside(s, p)}

\* the pieces of s from position `from` on, between the positions of cuts
RECURSIVE CutAt(_, _, _)
CutAt(s, from, cuts) ==
    IF ~\E p \in cuts : p >= from THEN <<SubSeq(s, from, Len(s))>>
    ELSE LET p == CHOOSE q \in cuts : q >= from /\ \A r \in cuts : r >= from => q <= r
         IN <<SubSeq(s, from, p - 1)>> \o CutAt(s, p + 1, cuts)

RECURSIVE Undouble(_)
Undouble(u) ==
    IF u = <<>> THEN <<>>
    ELSE IF Len(u) >= 2 /\ u[1] = "\"" /\ u[2] = "\"" THEN <<"\"">> \o Undouble(SubSeq(u, 3, Len(u)))
    ELSE <<u[1]>> \o Undouble(Tail(u))

\* the value of a field as written
Unquote(t) == IF Len(t) >= 2 /\ t[1] = "\"" THEN Undouble(SubSeq(t, 2, Len(t) - 1)) ELSE t

ParseRecord(t) == [k \in DOMAIN CutAt(t, 1, Breaks(t, ",")) |-> Unquote(CutAt(t, 1, Breaks(t, ","))[k])]

ParseCsv(s) == [r \in DOMAIN CutAt(s, 1, Breaks(s, "\n")) |-> ParseRecord(CutAt(s, 1, Breaks(s, "\n"))[r])]

\* C18: the line written for a row reads back as one record with the twelve
\* values of the row, each exactly as it was, whatever delimiters, quotes
\* and line breaks they hold; the file written for two rows reads back as
\* the header record and the two records of the rows.
C18_CsvRoundTrip ==
    ret.done =>
        /\ ParseCsv(ret.line) = <<RowValues(arg.row)>>
        /\ Len(ParseCsv(ret.line)[1]) = Len(RowHeaders)
        /\ Len(ret.files) = 1
        /\ ParseCsv(ret.files[1]) = <<RowHeaders, RowValues(arg.row), RowValues(arg.other)>>

\* a row whose title holds a quote and a delimiter and whose URL holds a
\* line break has been written
C18_Witness ==
    /\ ret.done
    /\ arg.row.film_titre = <<"\"", ",">>
    /\ arg.row.reservation_url = <<"\n", "a">>
    /\ Len(Split(ret.files[1], <<"\n">>)) > 3

\* no two requests of the run ask for the same film, day and showtime
NoRevisit ==
    \A i, j \in Requests :
        (log[i].kind = log[j].kind /\ log[i].film = log[j].film /\ log[i].day = log[j].day
            /\ log[i].key = log[j].key) => i = j

\* C20: every run ends, with a success or a failure exit, and no request of
\* it is issued twice.
C20_Terminates ==
    /\ <>(pc = "done" /\ exit \in {"success", "failure"})
    /\ []NoRevisit
    /\ [](pc = "done" <=> exit # "running")

\* a run has ended after at least eight requests
C20_Witness == pc = "done" /\ exit # "running" /\ Cardinality(Requests) >= 8

(***************************************************************************)
(* The version of a row (lines 506-509, 533-546) for keys and labels of    *)
(* any shape.                                                              *)
(***************************************************************************)
\* segments of a key: none, a version, white space
KeySegments == {Segment(<<>>, <<>>), Segment(<<"V", "F">>, <<"V", "F">>), Segment(<<" ">>, <<>>)}

\* segments of a label: another version with white space around it, white space
LabelSegments == {Segment(<<" ", "V", "O", " ">>, <<"V", "O">>), Segment(<<" ">>, <<>>)}

\* a showtime of the listing: a key, and a label that is a string or not
ShowtimeArgs ==
    LET labels == {[value |-> Str(Join([i \in DOMAIN segs |-> segs[i].raw], <<" ", "-", " ">>)), segs |-> segs] :
                       segs \in SeqsUpTo(LabelSegments, MaxSegments)}
                  \cup {[value |-> v.value, segs |-> <<Segment(v.text, v.text)>>] : v \in NonStrings}
    IN {[fn |-> "row", key |-> Join([i \in DOMAIN ksegs |-> ksegs[i].raw], <<"/">>), ksegs |-> ksegs,
         label |-> l.value, lsegs |-> l.segs] :
            ksegs \in SeqsUpTo(KeySegments, MaxSegments), l \in labels}

VersionInit ==
    /\ Idle
    /\ arg \in ShowtimeArgs
    /\ ret = NoResult

\* the body of the loop over the showtimes, from the decoders to the push
PushRow ==
    /\ arg.fn = "row"
    /\ ~ret.done
    /\ ret' = [done |-> TRUE,
               out |-> MakeRow(parseFilmsFromHTML(SessionSeedPage)[2], AllDays[1], arg.key, arg.label,
                               RevealPage(AllDays[1], AllKeys[1]))]
    /\ UNCHANGED <<arg, main>>

VersionSpec == VersionInit /\ [][PushRow]_vars

\* C21: the version of a row is the second segment of the showtime label,
\* white space around it removed, when that is not empty, and the second
\* segment of the showtime key otherwise; it is empty only when the label
\* and the key both have no second segment or an empty one.
C21_VersionLabelThenKey ==
    ret.done =>
        /\ ret.out.version = IF TextAt(arg.lsegs, 2) # <<>> THEN TextAt(arg.lsegs, 2) ELSE RawAt(arg.ksegs, 2)
        /\ (ret.out.version = <<>> => TextAt(arg.lsegs, 2) = <<>> /\ RawAt(arg.ksegs, 2) = <<>>)

\* a row has been pushed for a key and a label that name different versions
C21_Witness ==
    /\ ret.done
    /\ RawAt(arg.ksegs, 2) = <<"V", "F">>
    /\ TextAt(arg.lsegs, 2) = <<"V", "O">>
    /\ ret.out.version = <<"V", "O">>

====
